---------------------------- MODULE Spec2Model ----------------------------
(***************************************************************************)
(* Authentication and role-based authorisation layer of the film database *)
(* dashboard (src/app.py).  One action is one script run of one browser    *)
(* session: the widget that triggered the run is the action's input.       *)
(* The stored procedures and functions of the database are not part of     *)
(* src/; they are modelled from the design document (section 4 and 6).     *)
(***************************************************************************)
EXTENDS Integers, Sequences, FiniteSets, TLC

VARIABLES
    session,         \* st.session_state of every connected client
    DB_USERS,        \* the user table of the store
    auto_increment,  \* the next user id the store hands out
    deactivated,     \* history: the users sp_update_user_status has deactivated
    lastOp,          \* history: the last script run
    connection,      \* the st.cache_resource entry of get_connection
    catalog,         \* the film tables written by Add Actor and Add Location
    pc               \* where each client's thread is inside a script run

vars == <<session, DB_USERS, auto_increment, deactivated, lastOp, connection, catalog, pc>>

---------------------------------------------------------------------------
(* Bounds of the model *)

\* largest user id the store hands out
MaxUserId == 3
\* number of consecutive failed logins after which the store locks an account
LockThreshold == 2

\* the browser sessions that connect
Sessions == {"s1"}

\* the clients that are connected
Clients == DOMAIN session

---------------------------------------------------------------------------
(* Values *)

\* Python None for a string field, and for the integer field user_id
None == "None"
NoneId == 0

Roles == {"admin", "manager", "viewer"}
Operations == {"read", "create", "update", "delete"}

Usernames == {"admin", "bob"}
LoginNames == Usernames \cup {"ghost", ""}
Passwords == {"Admin@123", "short"}
Emails == {"admin@film.db", "bob@film.db"}
LoginPasswords == {"Admin@123", "wrongpass", ""}

\* what is typed into login_form: every pair of non-empty fields, and one
\* submission for each field left empty
LoginInputs ==
    {<<u, p>> : u \in LoginNames \ {""}, p \in LoginPasswords \ {""}}
        \cup {<<"", "Admin@123">>, <<"admin", "">>}

\* which of the three store calls of authenticate_user complete: a call is
\* only issued when the ones before it completed
CallOutcomes ==
    {<<FALSE, FALSE, FALSE>>, <<TRUE, FALSE, FALSE>>, <<TRUE, TRUE, FALSE>>,
     <<TRUE, TRUE, TRUE>>}

\* what is typed into create_user_form (username, password, confirmation,
\* email, role): every well-formed submission, and one for each validation
\* failure
CreateInputs ==
    {<<u, "Admin@123", "Admin@123", e, r>> : u \in Usernames, e \in Emails, r \in Roles}
        \cup {<<"", "Admin@123", "Admin@123", "bob@film.db", "viewer">>,
              <<"bob", "Admin@123", "short", "bob@film.db", "viewer">>,
              <<"bob", "short", "short", "bob@film.db", "viewer">>}

FullNameOf(username) == IF username = "admin" THEN "System Administrator" ELSE "Bob Builder"

\* st.session_state after the initialisation block
InitSession ==
    [authenticated |-> FALSE, user_id |-> NoneId, username |-> None,
     user_role |-> None, full_name |-> None, db_connected |-> FALSE]

\* the seeded administrator (default credentials admin / Admin@123)
AdminRow ==
    [user_id |-> 1, username |-> "admin", password |-> "Admin@123",
     full_name |-> FullNameOf("admin"), email |-> "admin@film.db", role |-> "admin",
     is_active |-> TRUE, account_locked |-> FALSE, failed_attempts |-> 0]

\* one store call of a run: procedure or statement, its parameters, and
\* whether it completed (FALSE: execute_query / call_procedure returned None)
Call(proc, params, ok) == [proc |-> proc, params |-> params, ok |-> ok]

\* the record of the last script run: who ran it (session fields read at the
\* start of the run), what triggered it, the store calls it issued in order,
\* and what it showed
Op(op, s, page, widget, calls, user, msg, rendered) ==
    [op |-> op, sess |-> s, role |-> session[s].user_role, uid |-> session[s].user_id,
     page |-> page, widget |-> widget, calls |-> calls, code |-> 0, user |-> user,
     msg |-> msg, rendered |-> rendered]

NoUser == [user_id |-> NoneId, username |-> None, full_name |-> None, role |-> None]

---------------------------------------------------------------------------
(* The credential store (stored function and procedures, design document   *)
(* sections 3, 4.1, 4.3 and 6)                                             *)

RowsByName(db, username) == {r \in db : r.username = username}
RowsById(db, user_id) == {r \in db : r.user_id = user_id}

\* the codes fn_authenticate_user(username, password) may return on store db.
\* The document fixes neither which of "locked" and "inactive" wins for an
\* account that is both, so either code is possible there.
fn_authenticate_user(db, username, password) ==
    IF RowsByName(db, username) = {} THEN {-1}
    ELSE LET r == CHOOSE x \in RowsByName(db, username) : TRUE IN
         IF r.account_locked /\ ~r.is_active THEN {-2, -3}
         ELSE IF r.account_locked THEN {-2}
         ELSE IF ~r.is_active THEN {-3}
         ELSE IF r.password # password THEN {-1}
         ELSE {r.user_id}

\* the bookkeeping fn_authenticate_user does: a wrong password on an active,
\* unlocked account counts a failed attempt and locks on the threshold; a
\* successful check resets the counter
fn_authenticate_user_store(db, username, password, code) ==
    IF RowsByName(db, username) = {} \/ code \in {-2, -3} THEN db
    ELSE LET r == CHOOSE x \in RowsByName(db, username) : TRUE
             n == r.failed_attempts + 1
         IN  IF code = -1
             THEN (db \ {r}) \cup
                  {[r EXCEPT !.failed_attempts = n,
                             !.account_locked = (n >= LockThreshold)]}
             ELSE (db \ {r}) \cup {[r EXCEPT !.failed_attempts = 0]}

IsAdmin(db, actor) == \E r \in RowsById(db, actor) : r.role = "admin"

ActiveAdmins(db) == {r \in db : r.role = "admin" /\ r.is_active}

\* sp_create_user: "ok" or the error the procedure signals
sp_create_user_error(db, actor, username, email) ==
    IF ~IsAdmin(db, actor) THEN "Only administrators can create users"
    ELSE IF \E r \in db : r.username = username \/ r.email = email THEN "Duplicate entry"
    ELSE "ok"

sp_create_user_store(db, id, username, password, full_name, email, role) ==
    db \cup {[user_id |-> id, username |-> username, password |-> password,
              full_name |-> full_name, email |-> email, role |-> role,
              is_active |-> TRUE, account_locked |-> FALSE, failed_attempts |-> 0]}

\* sp_update_user_status: administrators only
sp_update_user_status_error(db, actor, target) ==
    IF ~IsAdmin(db, actor) THEN "Only administrators can update users"
    ELSE IF RowsById(db, target) = {} THEN "User not found"
    ELSE "ok"

sp_update_user_status_store(db, target, active) ==
    {IF r.user_id = target THEN [r EXCEPT !.is_active = active] ELSE r : r \in db}

\* sp_delete_user: administrators only, never the last active administrator
sp_delete_user_error(db, actor, target) ==
    IF ~IsAdmin(db, actor) THEN "Only administrators can delete users"
    ELSE IF RowsById(db, target) = {} THEN "User not found"
    ELSE IF ActiveAdmins(db) \subseteq RowsById(db, target)
         THEN "Cannot delete the last active administrator"
    ELSE "ok"

sp_delete_user_store(db, target) == {r \in db : r.user_id # target}

---------------------------------------------------------------------------
(* Session Authenticator (src/app.py 111-149)                             *)

UserSummary(r) ==
    [user_id |-> r.user_id, username |-> r.username, full_name |-> r.full_name, role |-> r.role]

\* the locked and the inactive message exchanged
auth_error_swapped(code) ==
    IF code = -1 THEN "Invalid username or password"
    ELSE IF code = -2 THEN "Account is inactive"
    ELSE IF code = -3 THEN "Account is locked due to multiple failed login attempts"
    ELSE "Authentication failed"

\* no branch for -1
auth_error_no_invalid(code) ==
    IF code = -2 THEN "Account is locked due to multiple failed login attempts"
    ELSE IF code = -3 THEN "Account is inactive"
    ELSE "Authentication failed"

\* no branch for -2
auth_error_no_locked(code) ==
    IF code = -1 THEN "Invalid username or password"
    ELSE IF code = -3 THEN "Account is inactive"
    ELSE "Authentication failed"

\* no branch for -3
auth_error_no_inactive(code) ==
    IF code = -1 THEN "Invalid username or password"
    ELSE IF code = -2 THEN "Account is locked due to multiple failed login attempts"
    ELSE "Authentication failed"

\* the failure authenticate_user reports for a negative code of the
\* credential check
auth_error(code) ==
    IF code = -1 THEN "Invalid username or password"
    ELSE IF code = -2 THEN "Account is locked due to multiple failed login attempts"
    ELSE IF code = -3 THEN "Account is inactive"
    ELSE "Authentication failed"

\* a select box that offers every row, the seeded administrator included
ManageableUsers_all(db) == db

\* the rows the Manage Users tab offers in its select box
ManageableUsers(db) == {r \in db : r.username # "admin"}

\* whether the row of user id code can disappear between the credential
\* check and the row fetch of one authenticate_user call: the two are
\* separate statements, each committed on its own, and the Delete User
\* button of another administrator's session may commit in between
ConcurrentDelete(db, code) ==
    {FALSE} \cup
    {TRUE : r \in {x \in ManageableUsers(db) :
                     /\ x.user_id = code
                     /\ \E a \in db : /\ a.user_id # code
                                      /\ sp_delete_user_error(db, a.user_id, code) = "ok"}}

\* authenticate_user that also records the failed attempt of a wrong
\* password or unknown user with sp_update_login
authenticate_user_audit_failure(db, username, password, ok1, code, gone, ok2, ok3) ==
    LET db1 == IF ok1 THEN fn_authenticate_user_store(db, username, password, code) ELSE db
        db2 == IF gone THEN sp_delete_user_store(db1, code) ELSE db1
        c1 == Call("fn_authenticate_user", <<username, password>>, ok1)
        c2 == Call("SELECT DB_USERS", <<code>>, ok2)
        c3 == Call("sp_update_login", <<code, TRUE, "127.0.0.1">>, ok3)
        c4 == Call("sp_update_login", <<code, FALSE, "127.0.0.1">>, ok2)
        user_details == IF ok2 THEN RowsById(db2, code) ELSE {}
    IN  IF ok1 /\ code # 0
        THEN IF code = -1
             THEN [user |-> NoUser, error |-> auth_error(code), calls |-> <<c1, c4>>,
                   db |-> db1]
             ELSE IF code \in {-2, -3}
             THEN [user |-> NoUser, error |-> auth_error(code), calls |-> <<c1>>, db |-> db1]
             ELSE IF user_details # {}
             THEN [user |-> UserSummary(CHOOSE r \in user_details : TRUE), error |-> None,
                   calls |-> <<c1, c2, c3>>, db |-> db2]
             ELSE [user |-> NoUser, error |-> "Authentication failed",
                   calls |-> <<c1, c2>>, db |-> db2]
        ELSE [user |-> NoUser, error |-> "Authentication failed",
              calls |-> <<c1>>, db |-> db1]

\* authenticate_user that records the login event before it looks at the
\* fetched row
authenticate_user_audit_first(db, username, password, ok1, code, gone, ok2, ok3) ==
    LET db1 == IF ok1 THEN fn_authenticate_user_store(db, username, password, code) ELSE db
        db2 == IF gone THEN sp_delete_user_store(db1, code) ELSE db1
        c1 == Call("fn_authenticate_user", <<username, password>>, ok1)
        c2 == Call("SELECT DB_USERS", <<code>>, ok2)
        c3 == Call("sp_update_login", <<code, TRUE, "127.0.0.1">>, ok3)
        user_details == IF ok2 THEN RowsById(db2, code) ELSE {}
    IN  IF ok1 /\ code # 0
        THEN IF code \in {-1, -2, -3}
             THEN [user |-> NoUser, error |-> auth_error(code), calls |-> <<c1>>, db |-> db1]
             ELSE IF user_details # {}
             THEN [user |-> UserSummary(CHOOSE r \in user_details : TRUE), error |-> None,
                   calls |-> <<c1, c2, c3>>, db |-> db2]
             ELSE [user |-> NoUser, error |-> "Authentication failed",
                   calls |-> <<c1, c2, c3>>, db |-> db2]
        ELSE [user |-> NoUser, error |-> "Authentication failed",
              calls |-> <<c1>>, db |-> db1]

\* authenticate_user(username, password) against store db, where ok1, ok2, ok3
\* say whether the credential check, the row fetch and sp_update_login
\* complete, code is what the credential check returns, and gone says that
\* the row of a positive code was deleted before the row fetch. The result
\* is the pair (user, error), the calls issued and the store afterwards.
\* What sp_update_login writes (the login event) is kept in the call record
\* only.
authenticate_user(db, username, password, ok1, code, gone, ok2, ok3) ==
    LET db1 == IF ok1 THEN fn_authenticate_user_store(db, username, password, code) ELSE db
        db2 == IF gone THEN sp_delete_user_store(db1, code) ELSE db1
        c1 == Call("fn_authenticate_user", <<username, password>>, ok1)
        c2 == Call("SELECT DB_USERS", <<code>>, ok2)
        c3 == Call("sp_update_login", <<code, TRUE, "127.0.0.1">>, ok3)
        user_details == IF ok2 THEN RowsById(db2, code) ELSE {}
    IN  IF ok1 /\ code # 0
        THEN IF code \in {-1, -2, -3}
             THEN [user |-> NoUser, error |-> auth_error(code), calls |-> <<c1>>, db |-> db1]
             ELSE IF user_details # {}
             THEN [user |-> UserSummary(CHOOSE r \in user_details : TRUE), error |-> None,
                   calls |-> <<c1, c2, c3>>, db |-> db2]
             ELSE [user |-> NoUser, error |-> "Authentication failed",
                   calls |-> <<c1, c2>>, db |-> db2]
        ELSE [user |-> NoUser, error |-> "Authentication failed",
              calls |-> <<c1>>, db |-> db1]

\* login_form that installs the row without its role
login_form_no_role(ss, user) ==
    IF user # NoUser
    THEN [ss EXCEPT !.authenticated = TRUE,
                    !.user_id = user.user_id,
                    !.username = user.username,
                    !.full_name = user.full_name]
    ELSE ss

\* login_form that drops the tested connection when the login fails
login_form_marks_failed(ss, user) ==
    IF user # NoUser
    THEN [ss EXCEPT !.authenticated = TRUE,
                    !.user_id = user.user_id,
                    !.username = user.username,
                    !.user_role = user.role,
                    !.full_name = user.full_name]
    ELSE [ss EXCEPT !.db_connected = FALSE]

\* what login_form does to st.session_state with the user authenticate_user
\* returned: the five fields are set from the one row, or nothing is touched
login_form(ss, user) ==
    IF user # NoUser
    THEN [ss EXCEPT !.authenticated = TRUE,
                    !.user_id = user.user_id,
                    !.username = user.username,
                    !.user_role = user.role,
                    !.full_name = user.full_name]
    ELSE ss

\* logout() that forgets to clear full_name
logout_keeps_name(ss) ==
    [ss EXCEPT !.authenticated = FALSE, !.user_id = NoneId, !.username = None,
               !.user_role = None]

\* logout() that also forgets the connection test
logout_drops_connection(ss) ==
    [ss EXCEPT !.authenticated = FALSE, !.user_id = NoneId, !.username = None,
               !.user_role = None, !.full_name = None, !.db_connected = FALSE]

\* logout() that clears the identity but leaves the session authenticated
logout_keeps_authenticated(ss) ==
    [ss EXCEPT !.user_id = NoneId, !.username = None, !.user_role = None,
               !.full_name = None]

\* logout()
logout(ss) ==
    [ss EXCEPT !.authenticated = FALSE, !.user_id = NoneId, !.username = None,
               !.user_role = None, !.full_name = None]

---------------------------------------------------------------------------
(* Authorization Gate (src/app.py 151-157, 245-260)                       *)

\* check_permission with delete left out of the list of write operations
check_permission_no_delete(ss, operation) ==
    IF operation = "read" THEN TRUE
    ELSE IF operation \in {"create", "update"}
         THEN ss.user_role \in {"admin", "manager"}
    ELSE FALSE

check_permission(ss, operation) ==
    IF operation = "read" THEN TRUE
    ELSE IF operation \in {"create", "update", "delete"}
         THEN ss.user_role \in {"admin", "manager"}
    ELSE FALSE

\* navigation_options with the administrator pages added before the manager
\* pages
navigation_options_admin_first(ss) ==
    LET base == <<"Dashboard", "Film Management", "Cast & Roles", "Analytics & Reports">>
        ext1 == IF ss.user_role = "admin"
                THEN base \o <<"User Management", "Audit & Logs">>
                ELSE base
    IN  IF ss.user_role \in {"admin", "manager"}
        THEN ext1 \o <<"Director Operations", "Producer Analytics", "Crew Management",
                       "Equipment & Locations", "Database Operations">>
        ELSE ext1

navigation_options(ss) ==
    LET base == <<"Dashboard", "Film Management", "Cast & Roles", "Analytics & Reports">>
        ext1 == IF ss.user_role \in {"admin", "manager"}
                THEN base \o <<"Director Operations", "Producer Analytics", "Crew Management",
                               "Equipment & Locations", "Database Operations">>
                ELSE base
    IN  IF ss.user_role = "admin" THEN ext1 \o <<"User Management", "Audit & Logs">> ELSE ext1

Range(seq) == {seq[i] : i \in 1..Len(seq)}

\* the pages the sidebar radio offers the session
Menu(s) == Range(navigation_options(session[s]))

AllPages ==
    {"Dashboard", "Film Management", "Cast & Roles", "Analytics & Reports",
     "Director Operations", "Producer Analytics", "Crew Management",
     "Equipment & Locations", "Database Operations", "User Management", "Audit & Logs"}

AdminPages == {"User Management", "Audit & Logs"}

\* the buttons of the data pages that change the store: the operation class
\* the page checks before it shows the button, and the statements the button
\* issues (the first one decides whether the following ones are issued)
PageActions ==
    {[page |-> "Film Management", widget |-> "Add Film", operation |-> "create",
      procs |-> <<"sp_add_film_with_genres">>],
     [page |-> "Film Management", widget |-> "Update Film", operation |-> "update",
      procs |-> <<"UPDATE FILM">>],
     [page |-> "Cast & Roles", widget |-> "Add Actor", operation |-> "create",
      procs |-> <<"INSERT ACTOR", "SELECT ACTOR", "INSERT ACTOR_LANGUAGE">>],
     [page |-> "Cast & Roles", widget |-> "Cast Actor", operation |-> "create",
      procs |-> <<"INSERT ROLE">>],
     [page |-> "Crew Management", widget |-> "Allocate Crew", operation |-> "create",
      procs |-> <<"INSERT WORKS_ON">>],
     [page |-> "Equipment & Locations", widget |-> "Add Equipment", operation |-> "create",
      procs |-> <<"INSERT EQUIPMENT">>],
     [page |-> "Database Operations", widget |-> "Update Status", operation |-> "update",
      procs |-> <<"sp_update_film_status">>],
     [page |-> "Database Operations", widget |-> "Add Location & Calculate Cost",
      operation |-> "create",
      procs |-> <<"INSERT SHOOTING_LOCATION", "SELECT SHOOTING_LOCATION", "INSERT SHOT_AT">>]}

\* statements and procedures that change data
MutatingProcs ==
    {"sp_add_film_with_genres", "UPDATE FILM", "INSERT ACTOR", "INSERT ACTOR_LANGUAGE",
     "INSERT ROLE", "INSERT WORKS_ON", "INSERT EQUIPMENT", "sp_update_film_status",
     "INSERT SHOOTING_LOCATION", "INSERT SHOT_AT",
     "sp_create_user", "sp_update_user_status", "sp_delete_user", "sp_update_login"}

PrivilegedProcs == {"sp_create_user", "sp_update_user_status", "sp_delete_user"}

\* a read query of a page: the run records that it was issued; whether it
\* completed changes only what the page displays
Read(proc, params) == Call(proc, params, TRUE)

\* the read queries every run of a page issues (one entry per query group)
PageReads(ss, page) ==
    IF page = "User Management"
    THEN <<Read("sp_get_all_users", <<ss.user_id>>),
           Read("SELECT view_user_activity_summary", <<>>),
           Read("SELECT DB_USERS", <<"username != 'admin'">>)>>
    ELSE IF page = "Audit & Logs"
    THEN <<Read("SELECT AUDIT", <<>>)>>
    ELSE <<Read("SELECT", <<page>>)>>

\* the guard present on User Management only
AccessDenied_um_only(ss, page) == page = "User Management" /\ ss.user_role # "admin"

\* the guard at the top of the two administrator pages: TRUE when the run
\* is refused (st.error, st.stop)
AccessDenied(ss, page) == page \in AdminPages /\ ss.user_role # "admin"

\* the calls a button of a data page issues when it is pressed
ButtonCalls(a, ok) ==
    IF ok THEN [i \in 1..Len(a.procs) |-> Call(a.procs[i], <<>>, TRUE)]
    ELSE <<Call(a.procs[1], <<>>, FALSE)>>

---------------------------------------------------------------------------
(* Script runs                                                            *)

\* get_connection has not been called yet: the cache has no entry for the
\* connection parameters, nobody computes one, no connection was created
InitConnection == [cache |-> <<>>, lock |-> None, created |-> 0]

\* the four tables the two forms write, empty
InitCatalog ==
    [ACTOR |-> {}, ACTOR_LANGUAGE |-> {}, SHOOTING_LOCATION |-> {}, SHOT_AT |-> {}]

\* a client between two script runs
Idle == [at |-> "idle", table |-> None, id |-> NoneId]

\* largest number of rows one of the film tables gets
MaxRows == 2

Init ==
    /\ connection = InitConnection
    /\ catalog = InitCatalog
    /\ pc = [s \in Sessions |-> Idle]
    /\ session = [s \in Sessions |-> InitSession]
    /\ DB_USERS = {AdminRow}
    /\ auto_increment = 2
    /\ deactivated = {}
    /\ lastOp = [op |-> "init", sess |-> None, role |-> None, uid |-> NoneId, page |-> None,
                 widget |-> None, calls |-> <<>>, code |-> 0, user |-> NoUser, msg |-> None,
                 rendered |-> FALSE]

\* get_connection(host, user, password, database) under st.cache_resource,
\* for the one set of connection parameters: the first call connects and
\* its return value, a connection or None, becomes the cache entry; every
\* later call returns the entry. up says whether the store is reachable.
\* The entry holds the connection (numbered in the order of creation) or
\* NoneId for a cached None.

\* get_connection without the cache: every call connects
get_connection_uncached(conn, up) ==
    IF up THEN [conn EXCEPT !.cache = <<conn.created + 1>>, !.created = @ + 1]
    ELSE [conn EXCEPT !.cache = <<NoneId>>]

get_connection(conn, up) ==
    IF conn.cache = <<>>
    THEN IF up THEN [conn EXCEPT !.cache = <<conn.created + 1>>, !.created = @ + 1]
         ELSE [conn EXCEPT !.cache = <<NoneId>>]
    ELSE conn

\* login page, "Test Connection" button
TestConnection(s) ==
    /\ ~session[s].authenticated
    /\ \E up \in BOOLEAN :
        LET conn == Head(get_connection(connection, up).cache)
            \* conn and conn.is_connected()
            ok == conn # NoneId /\ up
        IN
        /\ connection' = get_connection(connection, up)
        /\ session' = [session EXCEPT ![s].db_connected = IF ok THEN TRUE ELSE @]
        /\ lastOp' = Op("test_connection", s, "Login", "Test Connection", <<>>, NoUser,
                        IF ok THEN "Connected to database successfully!"
                        ELSE "Connection failed. Please check your credentials.", TRUE)
    /\ UNCHANGED <<DB_USERS, auto_increment, deactivated>>
    /\ UNCHANGED <<catalog, pc>>

\* a form that asks for the username only
login_form_filled_username_only(username, password) == username # ""

\* "if username and password": both fields of login_form are filled in
login_form_filled(username, password) == username # "" /\ password # ""

\* login page, login_form submitted
Login(s) ==
    /\ ~session[s].authenticated
    /\ session[s].db_connected
    /\ \E input \in LoginInputs :
        LET username == input[1]
            password == input[2]
        IN
        IF login_form_filled(username, password)
        THEN \E oks \in CallOutcomes :
             \E code \in fn_authenticate_user(DB_USERS, username, password) :
             \E gone \in ConcurrentDelete(DB_USERS, IF oks[1] THEN code ELSE 0) :
                LET res == authenticate_user(DB_USERS, username, password,
                                             oks[1], code, gone, oks[2], oks[3])
                IN  /\ DB_USERS' = res.db
                    /\ deactivated' = IF gone THEN deactivated \ {code} ELSE deactivated
                    /\ session' = [session EXCEPT ![s] = login_form(@, res.user)]
                    /\ lastOp' = [Op("login", s, "Login", "Login", res.calls,
                                     res.user, res.error, TRUE)
                                     EXCEPT !.code = IF oks[1] THEN code ELSE 0]
        ELSE /\ UNCHANGED <<session, DB_USERS, deactivated>>
             /\ lastOp' = Op("login", s, "Login", "Login", <<>>, NoUser,
                             "Please enter both username and password", TRUE)
    /\ UNCHANGED auto_increment
    /\ UNCHANGED <<connection, catalog, pc>>

\* a logout that clears the record of every client
Logout_all(s) ==
    /\ session[s].authenticated
    /\ session' = [t \in Clients |-> logout(session[t])]
    /\ lastOp' = Op("logout", s, None, "Logout", <<>>, NoUser, None, FALSE)
    /\ UNCHANGED <<DB_USERS, auto_increment, deactivated>>
    /\ UNCHANGED <<connection, catalog, pc>>

\* sidebar "Logout" button
Logout(s) ==
    /\ session[s].authenticated
    /\ session' = [session EXCEPT ![s] = logout(@)]
    /\ lastOp' = Op("logout", s, None, "Logout", <<>>, NoUser, None, FALSE)
    /\ UNCHANGED <<DB_USERS, auto_increment, deactivated>>
    /\ UNCHANGED <<connection, catalog, pc>>

\* a page run that reloads the session's role from the user's row
ViewPage_reloads_role(s, page) ==
    /\ session[s].authenticated
    /\ lastOp' = IF AccessDenied(session[s], page)
                 THEN Op("page", s, page, None, <<>>, NoUser, "Access Denied", FALSE)
                 ELSE Op("page", s, page, None, PageReads(session[s], page), NoUser,
                         None, TRUE)
    /\ session' = [session EXCEPT ![s].user_role =
                        IF RowsByName(DB_USERS, session[s].username) = {} THEN @
                        ELSE (CHOOSE r \in RowsByName(DB_USERS, session[s].username) :
                                TRUE).role]
    /\ UNCHANGED <<DB_USERS, auto_increment, deactivated>>
    /\ UNCHANGED <<connection, catalog, pc>>

\* a run of a page with no button pressed
ViewPage(s, page) ==
    /\ session[s].authenticated
    /\ lastOp' = IF AccessDenied(session[s], page)
                 THEN Op("page", s, page, None, <<>>, NoUser, "Access Denied", FALSE)
                 ELSE Op("page", s, page, None, PageReads(session[s], page), NoUser,
                         None, TRUE)
    /\ UNCHANGED <<session, DB_USERS, auto_increment, deactivated>>
    /\ UNCHANGED <<connection, catalog, pc>>

\* a data page that looks the user's row up again and refuses a user who
\* was deactivated or deleted
PageButton_revalidates(s, page) ==
    /\ session[s].authenticated
    /\ \E a \in PageActions, ok \in BOOLEAN :
        /\ a.page = page
        /\ lastOp' = IF /\ check_permission(session[s], a.operation)
                        /\ \E r \in RowsById(DB_USERS, session[s].user_id) : r.is_active
                     THEN Op("page", s, page, a.widget,
                             ButtonCalls(a, ok) \o PageReads(session[s], page),
                             NoUser, IF ok THEN "success" ELSE "Query Error", TRUE)
                     ELSE Op("page", s, page, a.widget, PageReads(session[s], page),
                             NoUser, "You don't have permission", TRUE)
    /\ UNCHANGED <<session, DB_USERS, auto_increment, deactivated>>
    /\ UNCHANGED <<connection, catalog, pc>>

\* a data page that shows its buttons without asking check_permission
PageButton_unchecked(s, page) ==
    /\ session[s].authenticated
    /\ \E a \in PageActions, ok \in BOOLEAN :
        /\ a.page = page
        /\ lastOp' = Op("page", s, page, a.widget,
                        ButtonCalls(a, ok) \o PageReads(session[s], page),
                        NoUser, IF ok THEN "success" ELSE "Query Error", TRUE)
    /\ UNCHANGED <<session, DB_USERS, auto_increment, deactivated>>
    /\ UNCHANGED <<connection, catalog, pc>>

\* a run of a data page with one of its mutating buttons pressed
PageButton(s, page) ==
    /\ session[s].authenticated
    /\ \E a \in PageActions, ok \in BOOLEAN :
        /\ a.page = page
        /\ lastOp' = IF check_permission(session[s], a.operation)
                     THEN Op("page", s, page, a.widget,
                             ButtonCalls(a, ok) \o PageReads(session[s], page),
                             NoUser, IF ok THEN "success" ELSE "Query Error", TRUE)
                     ELSE Op("page", s, page, a.widget, PageReads(session[s], page),
                             NoUser, "You don't have permission", TRUE)
    /\ UNCHANGED <<session, DB_USERS, auto_increment, deactivated>>
    /\ UNCHANGED <<connection, catalog, pc>>

\* what call_procedure shows when the store signals an error
ProcedureError(e) == "Procedure Error: " \o e

\* the error of a call that does not complete (mysql.connector.Error raised
\* by the connection rather than signalled by the procedure)
StoreError == "Lost connection to MySQL server during query"

\* call_procedure that catches the error and shows nothing
call_procedure_error_silent(ok, err) == None

\* what call_procedure shows when a call fails: the error the procedure
\* signalled (ok: the store executed the call) or the connection's
call_procedure_error(ok, err) ==
    IF ok THEN ProcedureError(err) ELSE ProcedureError(StoreError)

\* the errors the three privileged procedures signal
StoreSignals ==
    {"Only administrators can create users", "Duplicate entry",
     "Only administrators can update users", "Only administrators can delete users",
     "User not found", "Cannot delete the last active administrator"}

\* the category under which a run reports a message: whatever error
\* call_procedure catches, signalled by the procedure or raised by the
\* connection, is shown by its one handler as "Procedure Error: <text>" and
\* the caller gets None; any other message is the page's own
ErrorCategory(msg) ==
    IF msg \in {ProcedureError(e) : e \in StoreSignals \cup {StoreError}}
    THEN "Procedure Error"
    ELSE msg

\* what execute_query shows when a statement does not complete
QueryError(e) == "Query Error: " \o e

\* everything a login run shows: execute_query and call_procedure report a
\* call that does not complete themselves, then login_form reports the
\* result of authenticate_user
login_messages(op) ==
    LET failed == SelectSeq(op.calls, LAMBDA c : ~c.ok)
    IN  [i \in 1..Len(failed) |->
            IF failed[i].proc = "sp_update_login" THEN ProcedureError(StoreError)
            ELSE QueryError(StoreError)] \o <<op.msg>>

\* the parameters the User Management page passes to the privileged procedures
sp_create_user_params(ss, username, password, full_name, email, role) ==
    <<ss.user_id, username, password, full_name, email, role>>

\* sp_update_user_status called with actor and target exchanged
sp_update_user_status_params_swapped(ss, user_select, new_status) ==
    <<user_select.user_id, ss.user_id, new_status>>

sp_update_user_status_params(ss, user_select, new_status) ==
    <<ss.user_id, user_select.user_id, new_status>>

\* sp_delete_user called with the selected user as the actor
sp_delete_user_params_target(ss, user_select) == <<user_select.user_id, user_select.user_id>>

sp_delete_user_params(ss, user_select) == <<ss.user_id, user_select.user_id>>

Denied(s, page, widget) == Op("page", s, page, widget, <<>>, NoUser, "Access Denied", FALSE)

\* User Management page, create_user_form submitted
CreateUser(s, page) ==
    /\ page = "User Management"
    /\ session[s].authenticated
    /\ IF AccessDenied(session[s], page)
       THEN /\ lastOp' = Denied(s, page, "Create User")
            /\ UNCHANGED <<DB_USERS, auto_increment, deactivated>>
       ELSE \E input \in CreateInputs, ok \in BOOLEAN :
            LET new_username == input[1]
                new_password == input[2]
                confirm_password == input[3]
                new_email == input[4]
                new_role == input[5]
                reads == PageReads(session[s], page)
                new_full_name == FullNameOf(new_username)
                params == sp_create_user_params(session[s], new_username, new_password,
                                                new_full_name, new_email, new_role)
                err == sp_create_user_error(DB_USERS, session[s].user_id, new_username,
                                            new_email)
            IN  IF new_username = ""
                THEN /\ lastOp' = Op("page", s, page, "Create User", reads, NoUser,
                                     "All fields are required", TRUE)
                     /\ UNCHANGED <<DB_USERS, auto_increment, deactivated>>
                ELSE IF new_password # confirm_password
                THEN /\ lastOp' = Op("page", s, page, "Create User", reads, NoUser,
                                     "Passwords do not match", TRUE)
                     /\ UNCHANGED <<DB_USERS, auto_increment, deactivated>>
                ELSE IF Len(new_password) < 8
                THEN /\ lastOp' = Op("page", s, page, "Create User", reads, NoUser,
                                     "Password must be at least 8 characters", TRUE)
                     /\ UNCHANGED <<DB_USERS, auto_increment, deactivated>>
                ELSE IF ok /\ err = "ok"
                THEN /\ auto_increment <= MaxUserId
                     /\ DB_USERS' = sp_create_user_store(DB_USERS, auto_increment,
                                        new_username, new_password, new_full_name,
                                        new_email, new_role)
                     /\ auto_increment' = auto_increment + 1
                     /\ lastOp' = Op("page", s, page, "Create User",
                                     <<Call("sp_create_user", params, TRUE)>> \o reads,
                                     NoUser, "User created successfully!", TRUE)
                ELSE /\ lastOp' = Op("page", s, page, "Create User",
                                     <<Call("sp_create_user", params, FALSE)>> \o reads,
                                     NoUser,
                                     call_procedure_error(ok, err), TRUE)
                     /\ UNCHANGED <<DB_USERS, auto_increment, deactivated>>
    /\ UNCHANGED <<session, deactivated>>
    /\ UNCHANGED <<connection, catalog, pc>>

\* User Management page, Manage Users tab, "Update Status" button
UpdateStatus(s, page) ==
    /\ page = "User Management"
    /\ session[s].authenticated
    /\ IF AccessDenied(session[s], page)
       THEN /\ lastOp' = Denied(s, page, "Update Status")
            /\ UNCHANGED <<DB_USERS, deactivated>>
       ELSE \E user_select \in ManageableUsers(DB_USERS), new_status \in BOOLEAN,
               ok \in BOOLEAN :
            LET reads == PageReads(session[s], page)
                params == sp_update_user_status_params(session[s], user_select, new_status)
                err == sp_update_user_status_error(DB_USERS, session[s].user_id,
                                                   user_select.user_id)
            IN  IF ok /\ err = "ok"
                THEN /\ DB_USERS' = sp_update_user_status_store(DB_USERS,
                                        user_select.user_id, new_status)
                     /\ deactivated' = IF new_status THEN deactivated
                                       ELSE deactivated \cup {user_select.user_id}
                     /\ lastOp' = Op("page", s, page, "Update Status",
                                     reads \o <<Call("sp_update_user_status", params, TRUE)>>,
                                     NoUser, "User status updated!", TRUE)
                ELSE /\ lastOp' = Op("page", s, page, "Update Status",
                                     reads \o <<Call("sp_update_user_status", params, FALSE)>>,
                                     NoUser,
                                     call_procedure_error(ok, err), TRUE)
                     /\ UNCHANGED <<DB_USERS, deactivated>>
    /\ UNCHANGED <<session, auto_increment>>
    /\ UNCHANGED <<connection, catalog, pc>>

\* User Management page, Manage Users tab, "Delete User" button (confirmed)
DeleteUser(s, page) ==
    /\ page = "User Management"
    /\ session[s].authenticated
    /\ IF AccessDenied(session[s], page)
       THEN /\ lastOp' = Denied(s, page, "Delete User")
            /\ UNCHANGED <<DB_USERS, deactivated>>
       ELSE \E user_select \in ManageableUsers(DB_USERS), ok \in BOOLEAN :
            LET reads == PageReads(session[s], page)
                params == sp_delete_user_params(session[s], user_select)
                err == sp_delete_user_error(DB_USERS, session[s].user_id,
                                            user_select.user_id)
            IN  IF ok /\ err = "ok"
                THEN /\ DB_USERS' = sp_delete_user_store(DB_USERS, user_select.user_id)
                     /\ deactivated' = deactivated \ {user_select.user_id}
                     /\ lastOp' = Op("page", s, page, "Delete User",
                                     reads \o <<Call("sp_delete_user", params, TRUE)>>,
                                     NoUser, "User deleted successfully!", TRUE)
                ELSE /\ lastOp' = Op("page", s, page, "Delete User",
                                     reads \o <<Call("sp_delete_user", params, FALSE)>>,
                                     NoUser,
                                     call_procedure_error(ok, err), TRUE)
                     /\ UNCHANGED <<DB_USERS, deactivated>>
    /\ UNCHANGED <<session, auto_increment>>
    /\ UNCHANGED <<connection, catalog, pc>>

\* one script run of an authenticated session on the selected page
Run(s, page) ==
    \/ ViewPage(s, page)
    \/ PageButton(s, page)
    \/ CreateUser(s, page)
    \/ UpdateStatus(s, page)
    \/ DeleteUser(s, page)

\* the page is the one selected in the sidebar radio
Next ==
    \E s \in Clients :
        \/ TestConnection(s)
        \/ Login(s)
        \/ Logout(s)
        \/ \E page \in Menu(s) : Run(s, page)

Spec == Init /\ [][Next]_vars

\* the page handlers entered with any page, whatever the sidebar offers
NextRoute ==
    \E s \in Clients :
        \/ TestConnection(s)
        \/ Login(s)
        \/ Logout(s)
        \/ \E page \in AllPages : Run(s, page)

SpecRoute == Init /\ [][NextRoute]_vars

\* a store in which the seeded administrator has been deactivated and bob is
\* the only active administrator
SeededStore ==
    {[AdminRow EXCEPT !.is_active = FALSE],
     [user_id |-> 2, username |-> "bob", password |-> "Admin@123",
      full_name |-> FullNameOf("bob"), email |-> "bob@film.db", role |-> "admin",
      is_active |-> TRUE, account_locked |-> FALSE, failed_attempts |-> 0]}

InitSeeded ==
    /\ connection = InitConnection
    /\ catalog = InitCatalog
    /\ pc = [s \in Sessions |-> Idle]
    /\ session = [s \in Sessions |-> InitSession]
    /\ DB_USERS = SeededStore
    /\ auto_increment = 3
    /\ deactivated = {}
    /\ lastOp = [op |-> "init", sess |-> None, role |-> None, uid |-> NoneId, page |-> None,
                 widget |-> None, calls |-> <<>>, code |-> 0, user |-> NoUser, msg |-> None,
                 rendered |-> FALSE]

SpecSeeded == InitSeeded /\ [][Next]_vars

\* two clients of the one store, each with its own st.session_state
TwoSessions == {"s1", "s2"}

InitTwo ==
    /\ connection = InitConnection
    /\ catalog = InitCatalog
    /\ pc = [s \in TwoSessions |-> Idle]
    /\ session = [s \in TwoSessions |-> InitSession]
    /\ DB_USERS = {AdminRow}
    /\ auto_increment = 2
    /\ deactivated = {}
    /\ lastOp = [op |-> "init", sess |-> None, role |-> None, uid |-> NoneId, page |-> None,
                 widget |-> None, calls |-> <<>>, code |-> 0, user |-> NoUser, msg |-> None,
                 rendered |-> FALSE]

\* the page each of the two clients works on, when its menu offers it: the
\* first one manages users, the second one works on films
PagesOf(s) == IF s = "s1" THEN {"User Management"} ELSE {"Film Management"}

NextTwo ==
    \E s \in Clients :
        \/ TestConnection(s)
        \/ Login(s)
        \/ Logout(s)
        \/ \E page \in Menu(s) \cap PagesOf(s) : Run(s, page)

SpecTwo == InitTwo /\ [][NextTwo]_vars

\* The first uses of the connection by several clients, thread by thread.
\* st.cache_resource looks the arguments up in its cache; on a miss it
\* takes the lock of the entry, looks again, and only then calls the
\* function and stores what it returned.
ConnectSessions == {"s1", "s2", "s3"}

InitConnect ==
    /\ connection = InitConnection
    /\ catalog = InitCatalog
    /\ pc = [s \in ConnectSessions |-> Idle]
    /\ session = [s \in ConnectSessions |-> InitSession]
    /\ DB_USERS = {AdminRow}
    /\ auto_increment = 2
    /\ deactivated = {}
    /\ lastOp = [op |-> "init", sess |-> None, role |-> None, uid |-> NoneId, page |-> None,
                 widget |-> None, calls |-> <<>>, code |-> 0, user |-> NoUser, msg |-> None,
                 rendered |-> FALSE]

\* the rest of the Test Connection run once get_connection has returned conn
ConnectionTested(s, conn, up) ==
    LET ok == conn # NoneId /\ up IN
    /\ pc' = [pc EXCEPT ![s] = [Idle EXCEPT !.id = conn]]
    /\ session' = [session EXCEPT ![s].db_connected = IF ok THEN TRUE ELSE @]
    /\ lastOp' = Op("test_connection", s, "Login", "Test Connection", <<>>, NoUser,
                    IF ok THEN "Connected to database successfully!"
                    ELSE "Connection failed. Please check your credentials.", TRUE)

\* "Test Connection" pressed: the cache is read without the lock
CacheLookup(s) ==
    /\ ~session[s].authenticated
    /\ pc[s].at = "idle"
    /\ IF connection.cache # <<>>
       THEN \E up \in BOOLEAN : ConnectionTested(s, Head(connection.cache), up)
       ELSE /\ pc' = [pc EXCEPT ![s].at = "miss"]
            /\ UNCHANGED <<session, lastOp>>
    /\ UNCHANGED <<connection, DB_USERS, auto_increment, deactivated, catalog>>

\* a thread that missed takes the lock of the entry when it is free
AcquireLock(s) ==
    /\ pc[s].at = "miss"
    /\ connection.lock = None
    /\ connection' = [connection EXCEPT !.lock = s]
    /\ pc' = [pc EXCEPT ![s].at = "compute"]
    /\ UNCHANGED <<session, lastOp, DB_USERS, auto_increment, deactivated, catalog>>

\* under the lock: the entry is read again, get_connection runs if it is
\* still missing, the lock is released and the run goes on
Compute(s) ==
    /\ pc[s].at = "compute"
    /\ \E up \in BOOLEAN :
        /\ connection' = [get_connection(connection, up) EXCEPT !.lock = None]
        /\ ConnectionTested(s, Head(get_connection(connection, up).cache), up)
    /\ UNCHANGED <<DB_USERS, auto_increment, deactivated, catalog>>

NextConnect ==
    \E s \in Clients :
        \/ CacheLookup(s)
        \/ AcquireLock(s)
        \/ Compute(s)

SpecConnect == InitConnect /\ [][NextConnect]_vars

\* Add Actor (with languages) and Add Location, statement by statement, for
\* two clients that are logged in as the seeded administrator.  Every
\* execute_query call is its own transaction (commit at the end of the
\* call), so the statements of two runs interleave.
ParentTables == {"ACTOR", "SHOOTING_LOCATION"}
DependentOf(table) == IF table = "ACTOR" THEN "ACTOR_LANGUAGE" ELSE "SHOT_AT"
FormOf(table) ==
    CHOOSE a \in PageActions : a.procs[1] = "INSERT " \o table

AdminSession ==
    [authenticated |-> TRUE, user_id |-> AdminRow.user_id, username |-> AdminRow.username,
     user_role |-> AdminRow.role, full_name |-> AdminRow.full_name, db_connected |-> TRUE]

InitAdd ==
    /\ connection = [InitConnection EXCEPT !.cache = <<1>>, !.created = 1]
    /\ catalog = InitCatalog
    /\ pc = [s \in TwoSessions |-> Idle]
    /\ session = [s \in TwoSessions |-> AdminSession]
    /\ DB_USERS = {AdminRow}
    /\ auto_increment = 2
    /\ deactivated = {}
    /\ lastOp = [op |-> "init", sess |-> None, role |-> None, uid |-> NoneId, page |-> None,
                 widget |-> None, calls |-> <<>>, code |-> 0, user |-> NoUser, msg |-> None,
                 rendered |-> FALSE]

\* the id AUTO_INCREMENT gives the next row of a table
NextRowId(rows) == Cardinality(rows) + 1

\* SELECT ... ORDER BY id DESC LIMIT 1
LatestId(rows) == CHOOSE n \in {r.id : r \in rows} : \A r \in rows : r.id <= n

\* the run ends: what it has issued and shown
EndRun(s, table, oks) ==
    /\ pc' = [pc EXCEPT ![s] = Idle]
    /\ lastOp' = Op("page", s, FormOf(table).page, FormOf(table).widget,
                    [i \in 1..Len(oks) |-> Call(FormOf(table).procs[i], <<>>, oks[i])],
                    NoUser, IF oks[Len(oks)] THEN "success" ELSE "Query Error", TRUE)

\* the form is submitted: INSERT INTO ACTOR / SHOOTING_LOCATION.  Add Actor
\* goes on to the lookup only when languages were selected.
InsertParent(s, table) ==
    /\ session[s].authenticated
    /\ check_permission(session[s], FormOf(table).operation)
    /\ pc[s].at = "idle"
    /\ Cardinality(catalog[table]) < MaxRows
    /\ \E ok \in BOOLEAN, languages \in BOOLEAN :
        IF ~ok
        THEN EndRun(s, table, <<FALSE>>) /\ UNCHANGED catalog
        ELSE /\ catalog' = [catalog EXCEPT ![table] =
                                @ \cup {[id |-> NextRowId(@), by |-> s]}]
             /\ IF table = "ACTOR" /\ ~languages
                THEN EndRun(s, table, <<TRUE>>)
                ELSE /\ pc' = [pc EXCEPT ![s] = [Idle EXCEPT !.at = "inserted",
                                                                !.table = table]]
                     /\ UNCHANGED lastOp
    /\ UNCHANGED <<session, DB_USERS, auto_increment, deactivated, connection>>

\* the id of the new row is looked up as the largest id of the table
SelectLatest(s) ==
    /\ pc[s].at = "inserted"
    /\ \E ok \in BOOLEAN :
        IF ok
        THEN /\ pc' = [pc EXCEPT ![s].at = "found",
                                 ![s].id = LatestId(catalog[pc[s].table])]
             /\ UNCHANGED lastOp
        ELSE EndRun(s, pc[s].table, <<TRUE, FALSE>>)
    /\ UNCHANGED <<session, DB_USERS, auto_increment, deactivated, connection, catalog>>

\* INSERT INTO ACTOR_LANGUAGE / SHOT_AT with the id that was looked up
InsertDependent(s) ==
    /\ pc[s].at = "found"
    /\ \E ok \in BOOLEAN :
        /\ catalog' = IF ok
                      THEN [catalog EXCEPT ![DependentOf(pc[s].table)] =
                                @ \cup {[ref |-> pc[s].id, by |-> s]}]
                      ELSE catalog
        /\ EndRun(s, pc[s].table, <<TRUE, TRUE, ok>>)
    /\ UNCHANGED <<session, DB_USERS, auto_increment, deactivated, connection>>

NextAdd ==
    \E s \in Clients :
        \/ \E table \in ParentTables : InsertParent(s, table)
        \/ SelectLatest(s)
        \/ InsertDependent(s)

SpecAdd == InitAdd /\ [][NextAdd]_vars

---------------------------------------------------------------------------
(* Properties                                                             *)

\* the calls of the last run that name one of the procedures in procs
CallsOf(procs) == {i \in DOMAIN lastOp.calls : lastOp.calls[i].proc \in procs}

\* the session fields the last run read, as check_permission and the page
\* guards see them
RunSession == [user_role |-> lastOp.role, user_id |-> lastOp.uid]

\* the policy table of the design document, section 4.2
PolicyTable ==
    [admin   |-> [read |-> TRUE, create |-> TRUE, update |-> TRUE, delete |-> TRUE],
     manager |-> [read |-> TRUE, create |-> TRUE, update |-> TRUE, delete |-> TRUE],
     viewer  |-> [read |-> TRUE, create |-> FALSE, update |-> FALSE, delete |-> FALSE]]

\* C1: in a session of any of the three roles, check_permission returns for
\* each of read, create, update and delete exactly the value of the policy
\* table, and that value is a boolean for every pair.
C1_PermissionMatchesPolicyTable ==
    \A s \in Clients :
        session[s].authenticated =>
            /\ session[s].user_role \in Roles
            /\ \A o \in Operations :
                /\ check_permission(session[s], o) \in BOOLEAN
                /\ check_permission(session[s], o) = PolicyTable[session[s].user_role][o]

\* a viewer is logged in and is refused delete
C1_Witness ==
    \E s \in Clients :
        /\ session[s].authenticated
        /\ session[s].user_role = "viewer"
        /\ ~check_permission(session[s], "delete")
        /\ check_permission(session[s], "read")

\* the operation class a mutating statement belongs to
OperationOf(proc) ==
    IF proc = "sp_create_user" THEN "create"
    ELSE IF proc = "sp_update_user_status" THEN "update"
    ELSE IF proc = "sp_delete_user" THEN "delete"
    ELSE (CHOOSE a \in PageActions : proc \in Range(a.procs)).operation

\* C2: a run of a session whose role is viewer issues no data-mutating call,
\* and every page run that issues one is a run of a session for which
\* check_permission of the call's operation class is true.
C2_ViewerNeverMutates ==
    \A i \in CallsOf(MutatingProcs) :
        /\ lastOp.role # "viewer"
        /\ lastOp.op = "page" => check_permission(RunSession, OperationOf(lastOp.calls[i].proc))

\* a viewer pressed a mutating button of a page in its menu: nothing mutating
\* was issued
C2_Witness ==
    /\ lastOp.op = "page"
    /\ lastOp.role = "viewer"
    /\ lastOp.widget = "Update Film"
    /\ CallsOf(MutatingProcs) = {}

\* C3: sp_create_user, sp_update_user_status and sp_delete_user are issued
\* only by runs of an authenticated session whose role is admin, and their
\* first parameter (the actor) is that session's own user id.
C3_PrivilegedCallsAdminOnly ==
    \A i \in CallsOf(PrivilegedProcs) :
        /\ lastOp.role = "admin"
        /\ lastOp.uid # NoneId
        /\ lastOp.calls[i].params[1] = lastOp.uid

\* an administrator other than the seeded one deleted a user
C3_Witness ==
    /\ \E i \in CallsOf({"sp_delete_user"}) : lastOp.calls[i].ok
    /\ lastOp.role = "admin"
    /\ lastOp.uid > 1

IsPrefix(a, b) == Len(a) <= Len(b) /\ \A i \in 1..Len(a) : a[i] = b[i]

ViewerMenu == <<"Dashboard", "Film Management", "Cast & Roles", "Analytics & Reports">>
ManagerMenu ==
    <<"Dashboard", "Film Management", "Cast & Roles", "Analytics & Reports",
      "Director Operations", "Producer Analytics", "Crew Management",
      "Equipment & Locations", "Database Operations">>
AdminMenu ==
    <<"Dashboard", "Film Management", "Cast & Roles", "Analytics & Reports",
      "Director Operations", "Producer Analytics", "Crew Management",
      "Equipment & Locations", "Database Operations", "User Management", "Audit & Logs">>
ExpectedMenu == [viewer |-> ViewerMenu, manager |-> ManagerMenu, admin |-> AdminMenu]

MenuOf(role) == navigation_options([user_role |-> role])

\* C4: the navigation list of a session is the list fixed for its role, in
\* order; the viewer list is a prefix of the manager list, which is a prefix
\* of the admin list; neither the viewer nor the manager list contains User
\* Management or Audit & Logs.
C4_NavigationByRole ==
    /\ \A s \in Clients :
        session[s].authenticated =>
            navigation_options(session[s]) = ExpectedMenu[session[s].user_role]
    /\ IsPrefix(MenuOf("viewer"), MenuOf("manager"))
    /\ IsPrefix(MenuOf("manager"), MenuOf("admin"))
    /\ Range(MenuOf("viewer")) \cap AdminPages = {}
    /\ Range(MenuOf("manager")) \cap AdminPages = {}

\* a manager is logged in and ran the last page of its menu
C4_Witness ==
    /\ lastOp.op = "page"
    /\ lastOp.role = "manager"
    /\ lastOp.page = "Database Operations"
    /\ session[lastOp.sess].user_role = "manager"
    /\ Len(navigation_options(session[lastOp.sess])) = 9

\* C5: a run of User Management or Audit & Logs by a session whose role is
\* not admin is refused: it renders nothing of the page and issues no store
\* call, whatever widget of the page triggered it.
C5_AdminPagesGuarded ==
    (lastOp.op = "page" /\ lastOp.page \in AdminPages /\ lastOp.role # "admin") =>
        /\ lastOp.calls = <<>>
        /\ ~lastOp.rendered
        /\ lastOp.msg = "Access Denied"

\* a manager entered User Management directly and pressed Delete User
C5_Witness ==
    /\ lastOp.op = "page"
    /\ lastOp.page = "User Management"
    /\ lastOp.role = "manager"
    /\ lastOp.widget = "Delete User"
    /\ ~lastOp.rendered

InvalidCredentials == "Invalid username or password"
AccountLocked == "Account is locked due to multiple failed login attempts"
AccountInactive == "Account is inactive"

\* the last run called authenticate_user
LoginRun == lastOp.op = "login" /\ lastOp.calls # <<>>

\* the row, as authenticate_user returns it, of user id
SummaryOf(id) == {UserSummary(r) : r \in RowsById(DB_USERS, id)}

\* the three failures of the credential check, as authenticate_user reports
\* them
NegativeCodesMapped ==
    /\ lastOp.code = -1 => (lastOp.user = NoUser /\ lastOp.msg = InvalidCredentials)
    /\ lastOp.code = -2 => (lastOp.user = NoUser /\ lastOp.msg = AccountLocked)
    /\ lastOp.code = -3 => (lastOp.user = NoUser /\ lastOp.msg = AccountInactive)
    /\ Cardinality({InvalidCredentials, AccountLocked, AccountInactive}) = 3

\* C6 as stated: authenticate_user reports code -1 as invalid credentials, -2
\* as account locked and -3 as account inactive, three different failures;
\* for any positive code the row of that user id is returned as
\* (user_id, username, full_name, role) with no error.
C6_PositiveCodeAlwaysReturned ==
    (LoginRun /\ lastOp.calls[1].ok) =>
        /\ NegativeCodesMapped
        /\ lastOp.code > 0 =>
            /\ lastOp.msg = None
            /\ lastOp.user \in SummaryOf(lastOp.code)

\* C6 as amended: -1, -2 and -3 are reported as invalid credentials, account
\* locked and account inactive, three different failures; a positive code is
\* used as the user id of the row fetch; when the fetch returns a row, that
\* row is returned as (user_id, username, full_name, role) with no error, and
\* when it fails or returns none the result is the generic failure.
C6_CodeMapping ==
    (LoginRun /\ lastOp.calls[1].ok) =>
        /\ NegativeCodesMapped
        /\ lastOp.code > 0 =>
            /\ Len(lastOp.calls) >= 2
            /\ lastOp.calls[2].proc = "SELECT DB_USERS"
            /\ lastOp.calls[2].params = <<lastOp.code>>
            /\ IF lastOp.calls[2].ok /\ RowsById(DB_USERS, lastOp.code) # {}
               THEN /\ lastOp.msg = None
                    /\ DOMAIN lastOp.user = {"user_id", "username", "full_name", "role"}
                    /\ lastOp.user \in SummaryOf(lastOp.code)
               ELSE /\ lastOp.msg = "Authentication failed"
                    /\ lastOp.user = NoUser

\* a positive code: the row of a viewer was fetched and returned
C6_Witness ==
    /\ LoginRun
    /\ lastOp.code > 1
    /\ lastOp.calls[2].ok
    /\ lastOp.user.user_id = lastOp.code
    /\ lastOp.user.role = "viewer"
    /\ lastOp.msg = None

\* this step is a run of session s that called authenticate_user(u, p)
LoginStep(s, u, p) ==
    /\ lastOp'.op = "login"
    /\ lastOp'.sess = s
    /\ lastOp'.calls # <<>>
    /\ lastOp'.calls[1].params = <<u, p>>

\* before the step, u / p fails on credentials: u is unknown, or u is an
\* active, unlocked user whose password is not p
UnknownUser(u) == RowsByName(DB_USERS, u) = {}
WrongPassword(u, p) ==
    \E r \in RowsByName(DB_USERS, u) : r.is_active /\ ~r.account_locked /\ r.password # p

\* C7: a login attempt with an unknown username and one with an existing
\* username and a wrong password give the caller the same result (no user,
\* the invalid-credentials message) and leave the same session state.
C7_NoUserEnumerationStep ==
    \A s \in Clients : \A input \in LoginInputs :
        (LoginStep(s, input[1], input[2]) /\ lastOp'.calls[1].ok
            /\ (UnknownUser(input[1]) \/ WrongPassword(input[1], input[2]))) =>
            /\ lastOp'.user = NoUser
            /\ lastOp'.msg = InvalidCredentials
            /\ session'[s] = [InitSession EXCEPT !.db_connected = TRUE]

\* C7, for every step: attempts that fail on credentials are told apart by
\* nothing the caller sees
C7_NoUserEnumeration == [][C7_NoUserEnumerationStep]_vars

\* a wrong password for an existing user was refused with the message an
\* unknown user gets
C7_Witness ==
    /\ LoginRun
    /\ lastOp.calls[1].ok
    /\ lastOp.code = -1
    /\ lastOp.msg = InvalidCredentials
    /\ \E r \in RowsByName(DB_USERS, lastOp.calls[1].params[1]) :
        r.password # lastOp.calls[1].params[2] /\ r.failed_attempts = 1

\* C8: a session becomes authenticated only after sp_update_login has
\* completed for that login.
C8_AuditBeforeAuthenticated ==
    (lastOp.op = "login" /\ session[lastOp.sess].authenticated) =>
        \E i \in CallsOf({"sp_update_login"}) :
            /\ lastOp.calls[i].ok
            /\ lastOp.calls[i].params[1] = session[lastOp.sess].user_id

\* the user has reached the lockout threshold
LockedOut(u) == \E r \in RowsByName(DB_USERS, u) : r.failed_attempts >= LockThreshold

\* C9 as stated: once a user has LockThreshold consecutive failed attempts,
\* every authenticate call for that user returns the account-locked failure
\* and leaves the session unauthenticated.
C9_LockedAlwaysReportedStep ==
    \A s \in Clients : \A input \in LoginInputs :
        (LoginStep(s, input[1], input[2]) /\ LockedOut(input[1])) =>
            /\ lastOp'.msg = AccountLocked
            /\ ~session'[s].authenticated

\* C9 as stated, for every step
C9_LockedAlwaysReported == [][C9_LockedAlwaysReportedStep]_vars

\* C9 as amended: once a user has LockThreshold consecutive failed attempts,
\* no authenticate call for that user authenticates the session, whatever
\* the password; a call whose credential check completes returns the
\* account-locked failure, or, if the account has also been deactivated,
\* the account-locked or the account-inactive failure.
C9_LockedOutStep ==
    \A s \in Clients : \A input \in LoginInputs :
        (LoginStep(s, input[1], input[2]) /\ LockedOut(input[1])) =>
            /\ ~session'[s].authenticated
            /\ lastOp'.user = NoUser
            /\ lastOp'.calls[1].ok =>
                \A r \in RowsByName(DB_USERS, input[1]) :
                    IF r.is_active THEN lastOp'.msg = AccountLocked
                    ELSE lastOp'.msg \in {AccountLocked, AccountInactive}

\* C9 as amended, for every step
C9_LockedOut == [][C9_LockedOutStep]_vars

\* a locked user gave the correct password and was refused as locked
C9_Witness ==
    /\ LoginRun
    /\ lastOp.code = -2
    /\ lastOp.msg = AccountLocked
    /\ ~session[lastOp.sess].authenticated
    /\ \E r \in RowsByName(DB_USERS, lastOp.calls[1].params[1]) :
        /\ r.password = lastOp.calls[1].params[2]
        /\ r.failed_attempts >= LockThreshold
        /\ r.is_active

\* C10 as stated: after sp_update_user_status has deactivated a user, every
\* authenticate call for that user with the correct password returns the
\* account-inactive failure and leaves the session unauthenticated.
C10_DeactivatedAlwaysReported ==
    LoginRun =>
        \A r \in RowsByName(DB_USERS, lastOp.calls[1].params[1]) :
            (r.user_id \in deactivated /\ r.password = lastOp.calls[1].params[2]) =>
                /\ lastOp.msg = AccountInactive
                /\ ~session[lastOp.sess].authenticated

\* C10 as amended: after sp_update_user_status has deactivated a user and for
\* as long as the user stays deactivated, no authenticate call for that user
\* authenticates the session; a call with the correct password whose
\* credential check completes returns the account-inactive failure, or, if
\* the account is also locked, the account-inactive or the account-locked
\* failure.
C10_DeactivatedRefused ==
    LoginRun =>
        \A r \in RowsByName(DB_USERS, lastOp.calls[1].params[1]) :
            (r.user_id \in deactivated /\ ~r.is_active) =>
                /\ ~session[lastOp.sess].authenticated
                /\ lastOp.user = NoUser
                /\ (lastOp.calls[1].ok /\ r.password = lastOp.calls[1].params[2]) =>
                    IF r.account_locked
                    THEN lastOp.msg \in {AccountInactive, AccountLocked}
                    ELSE lastOp.msg = AccountInactive

\* a deactivated, unlocked user gave the correct password and was refused as
\* inactive
C10_Witness ==
    /\ LoginRun
    /\ lastOp.code = -3
    /\ lastOp.msg = AccountInactive
    /\ ~session[lastOp.sess].authenticated
    /\ \E r \in RowsByName(DB_USERS, lastOp.calls[1].params[1]) :
        /\ r.user_id \in deactivated
        /\ ~r.is_active
        /\ ~r.account_locked
        /\ r.password = lastOp.calls[1].params[2]

GenericFailure == "Authentication failed"

FailureKinds ==
    {"InvalidCredentials", "AccountLocked", "AccountInactive", "StoreUnavailable",
     "Inconsistent"}

\* the kind of failure behind a result of authenticate_user, from what
\* happened in the store: whether the credential check completed, its code,
\* whether the row fetch completed
FailureKindOf(ok1, code, ok2, user) ==
    IF user # NoUser THEN "None"
    ELSE IF ~ok1 THEN "StoreUnavailable"
    ELSE IF code = -1 THEN "InvalidCredentials"
    ELSE IF code = -2 THEN "AccountLocked"
    ELSE IF code = -3 THEN "AccountInactive"
    ELSE IF ~ok2 THEN "StoreUnavailable"
    ELSE "Inconsistent"

\* the kind of failure of the last run's authenticate_user call
FailureKind ==
    FailureKindOf(lastOp.calls[1].ok, lastOp.code,
                  Len(lastOp.calls) >= 2 /\ lastOp.calls[2].ok, lastOp.user)

AuthCodes == {-1, -2, -3} \cup (1..MaxUserId)

\* the errors authenticate_user returns, on the present store, for failures
\* of kind k
ErrorsOfKind(k) ==
    {authenticate_user(DB_USERS, "bob", "wrongpass", o[1], c, g, o[2], o[3]).error :
        <<o, c, g>> \in
            {x \in CallOutcomes \X AuthCodes \X BOOLEAN :
                FailureKindOf(x[1][1], x[2], x[1][2],
                              authenticate_user(DB_USERS, "bob", "wrongpass", x[1][1],
                                                x[2], x[3], x[1][2], x[1][3]).user) = k}}

\* C11: every failure of authenticate_user reaches login_form with a result
\* of its own kind: the error of an invalid-credentials, account-locked,
\* account-inactive, store-unavailable or inconsistent-store failure is one
\* that no failure of another kind returns, and it is never the bare generic
\* failure.
C11_FailureKindsDistinguished ==
    (LoginRun /\ lastOp.user = NoUser) =>
        /\ lastOp.msg # GenericFailure
        /\ \A k \in FailureKinds \ {FailureKind} : lastOp.msg \notin ErrorsOfKind(k)

\* C12: a session that is not authenticated has no identity: user_id,
\* username, user_role and full_name are all None, from the first run of a
\* new client on and after every login, failed login and logout.
C12_UnauthenticatedHasNoIdentity ==
    \A s \in Clients :
        ~session[s].authenticated =>
            /\ session[s].user_id = NoneId
            /\ session[s].username = None
            /\ session[s].user_role = None
            /\ session[s].full_name = None

\* a viewer has logged in and out again, and the session holds nothing of it
C12_Witness ==
    /\ lastOp.op = "logout"
    /\ lastOp.role = "viewer"
    /\ lastOp.uid > 1
    /\ session[lastOp.sess] = [InitSession EXCEPT !.db_connected = TRUE]

\* the identity a session holds
Identity(ss) ==
    [user_id |-> ss.user_id, username |-> ss.username, full_name |-> ss.full_name,
     role |-> ss.user_role]

\* C13, one step: a session that is authenticated after the step has
\* user_id, username and user_role set, the role being admin, manager or
\* viewer; and if the step changed the session, it was a login run whose
\* authenticate_user call returned one row of the store, and all identity
\* fields are that row's.
C13_PopulatedFromOneRowStep ==
    \A s \in Clients :
        session'[s].authenticated =>
            /\ session'[s].user_id # NoneId
            /\ session'[s].username # None
            /\ session'[s].user_role \in Roles
            /\ session'[s] # session[s] =>
                /\ ~session[s].authenticated
                /\ lastOp'.op = "login"
                /\ lastOp'.sess = s
                /\ lastOp'.msg = None
                /\ \E r \in DB_USERS' :
                    /\ lastOp'.user = UserSummary(r)
                    /\ r.user_id = lastOp'.code
                    /\ Identity(session'[s]) = UserSummary(r)

\* C13: every authenticated session a run observes was populated whole, from
\* the one row a successful authenticate_user call returned, and has not
\* been written since
C13_PopulatedFromOneRow == [][C13_PopulatedFromOneRowStep]_vars

\* a page handler runs in the session of a manager, all of whose fields are
\* the manager's row
C13_Witness ==
    /\ lastOp.op = "page"
    /\ lastOp.rendered
    /\ session[lastOp.sess].authenticated
    /\ session[lastOp.sess].user_role = "manager"
    /\ \E r \in DB_USERS : Identity(session[lastOp.sess]) = UserSummary(r)

\* C14, one step: a session that is authenticated before and after the step
\* has the same user_role and user_id (and username and full_name) after it,
\* whatever the step did to the store and whichever session took it; the
\* role of a session changes only in a login or logout run of that session.
C14_RoleFixedStep ==
    \A s \in Clients :
        /\ (session[s].authenticated /\ session'[s].authenticated) =>
            Identity(session'[s]) = Identity(session[s])
        /\ session'[s].user_role # session[s].user_role =>
            /\ lastOp'.sess = s
            /\ lastOp'.op \in {"login", "logout"}

\* C14: between a login and the next logout of a session its role and user
\* id never change
C14_RoleFixed == [][C14_RoleFixedStep]_vars

\* a page run of a session whose user another session has deleted and
\* created again with another role: the session still has the role and the
\* user id of its login
C14_Witness ==
    /\ lastOp.op = "page"
    /\ lastOp.sess = "s2"
    /\ session["s2"].authenticated
    /\ session["s2"].user_role = lastOp.role
    /\ \E r \in RowsByName(DB_USERS, session["s2"].username) :
        /\ r.role # session["s2"].user_role
        /\ r.user_id # session["s2"].user_id

\* C15, one step: a logout run leaves its session with authenticated = FALSE
\* and user_id, username, user_role and full_name None; a run of a session
\* that is not authenticated is a run of the login page, never of a page
\* handler; and such a session becomes authenticated only by a login run
\* whose authenticate_user call returned a user.
C15_LogoutStep ==
    \A s \in Clients :
        /\ (lastOp'.op = "logout" /\ lastOp'.sess = s) =>
            /\ session[s].authenticated
            /\ session'[s] =
                [InitSession EXCEPT !.db_connected = session[s].db_connected]
        /\ (~session[s].authenticated /\ lastOp'.sess = s) =>
            /\ lastOp'.op \in {"login", "test_connection"}
            /\ lastOp'.page = "Login"
        /\ (~session[s].authenticated /\ session'[s].authenticated) =>
            /\ lastOp'.op = "login"
            /\ lastOp'.sess = s
            /\ lastOp'.user # NoUser

\* C15: after logout the session is cleared and stays on the login page
\* until a new successful login
C15_Logout == [][C15_LogoutStep]_vars

\* an administrator has logged out while a second user exists: the session
\* is cleared
C15_Witness ==
    /\ lastOp.op = "logout"
    /\ lastOp.role = "admin"
    /\ Cardinality(DB_USERS) = 2
    /\ ~session[lastOp.sess].authenticated
    /\ session[lastOp.sess].user_role = None

\* u / p are the credentials of an active, unlocked user
ValidCredentials(u, p) ==
    \E r \in RowsByName(DB_USERS, u) : r.is_active /\ ~r.account_locked /\ r.password = p

\* the last run was a login whose authenticate_user call failed
FailedLogin == LoginRun /\ lastOp.user = NoUser

\* C16 as stated: a failed authenticate_user call of any kind leaves every
\* field of the session unchanged and unauthenticated and reports one
\* message; and the authenticate_user call that follows a failed one, with
\* the credentials of an active, unlocked user, succeeds.
C16_FailedLoginOneMessageStep ==
    \A s \in Clients : \A input \in LoginInputs :
        LoginStep(s, input[1], input[2]) =>
            /\ lastOp'.user = NoUser =>
                /\ session'[s] = session[s]
                /\ ~session'[s].authenticated
                /\ Len(login_messages(lastOp')) = 1
            /\ (FailedLogin /\ ValidCredentials(input[1], input[2])) =>
                session'[s].authenticated

C16_FailedLoginRecoverableStep ==
    \A s \in Clients : \A input \in LoginInputs :
        LoginStep(s, input[1], input[2]) =>
            /\ lastOp'.user = NoUser =>
                /\ session'[s] = session[s]
                /\ ~session'[s].authenticated
                /\ lastOp'.msg \in {InvalidCredentials, AccountLocked, AccountInactive,
                                    GenericFailure}
                /\ login_messages(lastOp') \in
                    {<<lastOp'.msg>>, <<QueryError(StoreError), lastOp'.msg>>}
                /\ Len(login_messages(lastOp')) = 2 <=>
                    \E i \in DOMAIN lastOp'.calls : ~lastOp'.calls[i].ok
            /\ (/\ ValidCredentials(input[1], input[2])
                /\ lastOp'.calls[1].ok
                /\ Len(lastOp'.calls) >= 2
                /\ lastOp'.calls[2].ok
                /\ RowsById(DB_USERS', lastOp'.code) # {}) =>
                    /\ session'[s].authenticated
                    /\ session'[s].username = input[1]
                    /\ lastOp'.msg = None

C17_MissingRowFails ==
    (LoginRun /\ lastOp.calls[1].ok /\ lastOp.code > 0
        /\ RowsById(DB_USERS, lastOp.code) = {}) =>
        /\ lastOp.user = NoUser
        /\ lastOp.msg = GenericFailure
        /\ ~session[lastOp.sess].authenticated
        /\ CallsOf({"sp_update_login"}) = {}

\* the credential check returned the id of a user whose row was gone when
\* it was fetched
C17_Witness ==
    /\ LoginRun
    /\ lastOp.calls[1].ok
    /\ lastOp.code > 1
    /\ Len(lastOp.calls) = 2
    /\ lastOp.calls[2].ok
    /\ RowsById(DB_USERS, lastOp.code) = {}
    /\ lastOp.user = NoUser

PermissionFailure == "Only administrators can create users"
DuplicateFailure == "Duplicate entry"
LastAdminFailure == "Cannot delete the last active administrator"

\* the last run submitted create_user_form and its sp_create_user call
\* failed
CreateFailure ==
    /\ lastOp.op = "page"
    /\ lastOp.widget = "Create User"
    /\ lastOp.calls # <<>>
    /\ lastOp.calls[1].proc = "sp_create_user"
    /\ ~lastOp.calls[1].ok

\* what sp_create_user signalled in that run (a failed call leaves the
\* store as it was)
CreateSignal ==
    sp_create_user_error(DB_USERS, lastOp.calls[1].params[1], lastOp.calls[1].params[2],
                         lastOp.calls[1].params[5])

\* C18: when sp_create_user fails, the run reports a permission failure and
\* a duplicate-key failure under two different error categories, each
\* different from the category of a generic store error.
C18_CreateFailuresDistinguished ==
    (CreateFailure /\ CreateSignal \in {PermissionFailure, DuplicateFailure}
        /\ lastOp.msg = ProcedureError(CreateSignal)) =>
        /\ ErrorCategory(lastOp.msg) # ErrorCategory(ProcedureError(StoreError))
        /\ \A e \in {PermissionFailure, DuplicateFailure} \ {CreateSignal} :
            ErrorCategory(lastOp.msg) # ErrorCategory(ProcedureError(e))

\* this step is a run that called sp_create_user
CreateStep ==
    /\ lastOp'.op = "page"
    /\ lastOp'.widget = "Create User"
    /\ lastOp'.calls # <<>>
    /\ lastOp'.calls[1].proc = "sp_create_user"

\* C19, one step: sp_create_user called with a username or an email that a
\* user of the store already has adds no user and reports no success; when
\* the actor is an administrator and the store executes the call, what is
\* reported is the duplicate-entry error.
C19_DuplicateRefusedStep ==
    (CreateStep /\ \E r \in DB_USERS : \/ r.username = lastOp'.calls[1].params[2]
                                       \/ r.email = lastOp'.calls[1].params[5]) =>
        /\ DB_USERS' = DB_USERS
        /\ auto_increment' = auto_increment
        /\ ~lastOp'.calls[1].ok
        /\ lastOp'.msg # "User created successfully!"
        /\ (IsAdmin(DB_USERS, lastOp'.calls[1].params[1])
                /\ lastOp'.msg # ProcedureError(StoreError)) =>
            lastOp'.msg = ProcedureError(DuplicateFailure)

DeleteFailure ==
    /\ lastOp.op = "page"
    /\ lastOp.widget = "Delete User"
    /\ lastOp.calls # <<>>
    /\ lastOp.calls[Len(lastOp.calls)].proc = "sp_delete_user"
    /\ ~lastOp.calls[Len(lastOp.calls)].ok

\* what sp_delete_user signalled in that run
DeleteSignal ==
    sp_delete_user_error(DB_USERS, lastOp.calls[Len(lastOp.calls)].params[1],
                         lastOp.calls[Len(lastOp.calls)].params[2])

---------------------------------------------------------------------------
(* C21: an active administrator always exists *)

\* a run of the Manage Users tab whose procedure call completed
ManageStep(widget, proc) ==
    /\ lastOp.op = "page"
    /\ lastOp.widget = widget
    /\ \E i \in CallsOf({proc}) : lastOp.calls[i].ok

\* C21: whatever Create User, Update Status and Delete User runs the
\* sessions have made on the User Management page, the store holds a user
\* that is active and has role admin.
C21_ActiveAdminExists == ActiveAdmins(DB_USERS) # {}

\* a second administrator has deactivated their own account on the Manage
\* Users tab: the store still holds an active administrator
C21_Witness ==
    /\ ManageStep("Update Status", "sp_update_user_status")
    /\ \E i \in CallsOf({"sp_update_user_status"}) :
        /\ lastOp.calls[i].params[1] = lastOp.calls[i].params[2]
        /\ lastOp.calls[i].params[3] = FALSE
    /\ \E r \in RowsById(DB_USERS, lastOp.uid) : r.role = "admin" /\ ~r.is_active
    /\ ActiveAdmins(DB_USERS) # {}

---------------------------------------------------------------------------
(* C22: a failed connection attempt can be retried *)

ConnectionFailed == "Connection failed. Please check your credentials."
ConnectionSucceeded == "Connected to database successfully!"

\* C22: a Test Connection run that failed is reported, and the same session
\* can repeat it with the same connection parameters and succeed once the
\* store is reachable: a run of Test Connection that reports success is
\* possible in the state the failed run left.
C22_FailedConnectionRetryable ==
    \A s \in Clients :
        (lastOp.op = "test_connection" /\ lastOp.sess = s /\ lastOp.msg = ConnectionFailed) =>
            ENABLED (TestConnection(s) /\ lastOp'.msg = ConnectionSucceeded)

---------------------------------------------------------------------------
(* C23: the connection is created once *)

\* C23: however the first Test Connection runs of several sessions
\* interleave, at most one connection is created, and every session that
\* obtained a connection obtained the one the cache holds.
C23_ConnectionCreatedOnce ==
    /\ connection.created <= 1
    /\ \A s \in Clients : pc[s].id # NoneId => connection.cache = <<pc[s].id>>

\* three first uses raced: all three missed the cache; the first has
\* created the connection and returned it, the second holds the lock and
\* finds the entry there, the third still waits for the lock
C23_Witness ==
    /\ connection.created = 1
    /\ connection.cache = <<1>>
    /\ pc["s1"].id = 1 /\ session["s1"].db_connected
    /\ pc["s2"].at = "compute" /\ connection.lock = "s2"
    /\ pc["s3"].at = "miss"

---------------------------------------------------------------------------
(* C24: sessions are isolated from each other *)

\* C24, one step: a run of one session (a login, a failed login, a logout
\* or any other run) changes no field of the record of another session.
C24_SessionsIsolatedStep ==
    \A s \in Clients : session'[s] # session[s] => lastOp'.sess = s

\* C24: the session records are private to their session; what sessions
\* share is the store and its connection
C24_SessionsIsolated == [][C24_SessionsIsolatedStep]_vars

\* the first session has logged out while the second is logged in as
\* another user: the second is still logged in
C24_Witness ==
    /\ lastOp.op = "logout"
    /\ lastOp.sess = "s1"
    /\ ~session["s1"].authenticated
    /\ session["s2"].authenticated
    /\ session["s2"].user_id # lastOp.uid

---------------------------------------------------------------------------
(* C25: the order of the store calls of authenticate_user *)

\* C25: a login run that calls authenticate_user contacts the store in one
\* order: the credential check first; the row fetch second, only after a
\* credential check that completed with a positive code, and for that
\* code; sp_update_login third, only after a row fetch that found the row,
\* with the code, success = TRUE and the fixed address.  sp_update_login
\* is called exactly once when authenticate_user returns a user and not at
\* all when it returns a failure.
C25_StoreCallOrder ==
    (LoginRun /\ lastOp.calls # <<>>) =>
        LET calls == lastOp.calls IN
        /\ Len(calls) <= 3
        /\ calls[1].proc = "fn_authenticate_user"
        /\ Len(calls) >= 2 =>
            /\ calls[2].proc = "SELECT DB_USERS"
            /\ calls[1].ok
            /\ lastOp.code > 0
            /\ calls[2].params = <<lastOp.code>>
        /\ Len(calls) >= 3 =>
            /\ calls[3].proc = "sp_update_login"
            /\ calls[2].ok
            /\ lastOp.user.user_id = lastOp.code
            /\ calls[3].params = <<lastOp.code, TRUE, "127.0.0.1">>
        /\ (lastOp.code > 0 /\ calls[1].ok) => Len(calls) >= 2
        /\ lastOp.user # NoUser => Cardinality(CallsOf({"sp_update_login"})) = 1
        /\ lastOp.user = NoUser => CallsOf({"sp_update_login"}) = {}

\* a login of a user other than the seeded administrator that succeeded:
\* the three calls were issued in order and completed
C25_Witness ==
    /\ LoginRun
    /\ Len(lastOp.calls) = 3
    /\ \A i \in 1..3 : lastOp.calls[i].ok
    /\ lastOp.user.user_id = 2
    /\ session[lastOp.sess].authenticated

---------------------------------------------------------------------------
(* C26: when login_form checks credentials *)

EnterBoth == "Please enter both username and password"

\* C26, one step: a login run is a run of a session whose connection test
\* has succeeded, and db_connected becomes TRUE only in a Test Connection
\* run of the session that reports success; a login run that calls the
\* store calls it with a non-empty username and a non-empty password; a
\* login run that does not call the store is the one with an empty field,
\* it shows the warning and leaves the session records and the store as
\* they were.
C26_CredentialCheckGuardedStep ==
    /\ \A s \in Clients :
        /\ (lastOp'.op = "login" /\ lastOp'.sess = s) => session[s].db_connected
        /\ (~session[s].db_connected /\ session'[s].db_connected) =>
            /\ lastOp'.op = "test_connection"
            /\ lastOp'.sess = s
            /\ lastOp'.msg = ConnectionSucceeded
    /\ lastOp'.op = "login" =>
        /\ \A i \in DOMAIN lastOp'.calls :
            lastOp'.calls[i].proc = "fn_authenticate_user" =>
                /\ lastOp'.calls[i].params[1] # ""
                /\ lastOp'.calls[i].params[2] # ""
        /\ lastOp'.calls # <<>> => lastOp'.calls[1].proc = "fn_authenticate_user"
        /\ lastOp'.calls # <<>> => lastOp'.msg # EnterBoth
        /\ lastOp'.calls = <<>> =>
            /\ lastOp'.msg = EnterBoth
            /\ session' = session
            /\ DB_USERS' = DB_USERS

\* C26: the credential check is only made with both fields filled in, and
\* only in a session whose connection test succeeded
C26_CredentialCheckGuarded == [][C26_CredentialCheckGuardedStep]_vars

\* a login run with an empty field after users were created: the warning
\* is shown, no store call was made, the session is not authenticated
C26_Witness ==
    /\ lastOp.op = "login"
    /\ lastOp.calls = <<>>
    /\ lastOp.msg = EnterBoth
    /\ session[lastOp.sess].db_connected
    /\ ~session[lastOp.sess].authenticated
    /\ Cardinality(DB_USERS) > 1

---------------------------------------------------------------------------
(* C27: a session outlives its user *)

\* the user of session s is no longer an active row of the store
Stale(s) ==
    /\ session[s].authenticated
    /\ ~\E r \in RowsById(DB_USERS, session[s].user_id) : r.is_active

\* C27, one step: a session stops being authenticated only by its own
\* logout run, and while it is authenticated its role and user id stay
\* those of its login, also in the step in which another session
\* deactivates or deletes its user; and a run of a session whose user is
\* deactivated or deleted is served by the role in the session: a button
\* of a data page is refused only to a viewer, and for an administrator or
\* manager it issues its mutating calls.
C27_StaleSessionKeepsAccessStep ==
    \A s \in Clients :
        /\ (session[s].authenticated /\ ~session'[s].authenticated) =>
            /\ lastOp'.op = "logout"
            /\ lastOp'.sess = s
        /\ (session[s].authenticated /\ session'[s].authenticated) =>
            /\ session'[s].user_role = session[s].user_role
            /\ session'[s].user_id = session[s].user_id
        /\ (Stale(s) /\ lastOp'.op = "page" /\ lastOp'.sess = s /\ lastOp'.widget # None
                /\ lastOp'.page \notin AdminPages) =>
            IF session[s].user_role = "viewer"
            THEN lastOp'.msg = "You don't have permission"
            ELSE /\ lastOp'.msg # "You don't have permission"
                 /\ \E i \in DOMAIN lastOp'.calls : lastOp'.calls[i].proc \in MutatingProcs

\* C27: deactivating or deleting a user does not end the user's sessions
C27_StaleSessionKeepsAccess == [][C27_StaleSessionKeepsAccessStep]_vars

\* the second session pressed a button of a data page after the first
\* deactivated or deleted its user: the mutating call was made and completed
C27_Witness ==
    /\ lastOp.op = "page"
    /\ lastOp.sess = "s2"
    /\ lastOp.widget # None
    /\ Stale("s2")
    /\ session["s2"].user_role = lastOp.role
    /\ \E i \in DOMAIN lastOp.calls :
        lastOp.calls[i].proc \in MutatingProcs /\ lastOp.calls[i].ok

---------------------------------------------------------------------------
(* C28: the seeded administrator is never a target *)

\* the last run called proc with the user of id target as its target
Targets(lo, proc, target) ==
    \E i \in DOMAIN lo.calls : lo.calls[i].proc = proc /\ lo.calls[i].params[2] = target

\* C28: no run calls sp_update_user_status or sp_delete_user with the user
\* named 'admin' as target; and an administrator on User Management can
\* make either call with any other user of the store as target, other
\* administrators and the acting administrator included.
C28_SeededAdminNeverTarget ==
    /\ \A r \in RowsByName(DB_USERS, "admin") :
        /\ ~Targets(lastOp, "sp_update_user_status", r.user_id)
        /\ ~Targets(lastOp, "sp_delete_user", r.user_id)
    /\ \A s \in Clients :
        (session[s].authenticated /\ session[s].user_role = "admin") =>
            \A r \in DB_USERS : r.username # "admin" =>
                /\ ENABLED (/\ UpdateStatus(s, "User Management")
                            /\ Targets(lastOp', "sp_update_user_status", r.user_id))
                /\ ENABLED (/\ DeleteUser(s, "User Management")
                            /\ Targets(lastOp', "sp_delete_user", r.user_id))

\* a second administrator selected their own account and deleted it
C28_Witness ==
    /\ ManageStep("Delete User", "sp_delete_user")
    /\ lastOp.role = "admin"
    /\ lastOp.uid # 1
    /\ Targets(lastOp, "sp_delete_user", lastOp.uid)
    /\ RowsById(DB_USERS, lastOp.uid) = {}

---------------------------------------------------------------------------
(* C29: dependent rows of Add Actor and Add Location *)

\* C29: every ACTOR_LANGUAGE row references an ACTOR row, and every SHOT_AT
\* row a SHOOTING_LOCATION row, that the same client's run inserted, never
\* a row another session inserted between the insert and the lookup.
C29_DependentRowsReferenceOwnRow ==
    \A table \in ParentTables :
        \A d \in catalog[DependentOf(table)] :
            \E p \in catalog[table] : p.id = d.ref /\ p.by = d.by

---------------------------------------------------------------------------
(* C30: authenticated sessions are connected sessions *)

\* C30, one step: a session that is authenticated has db_connected, and it
\* became authenticated in a session whose connection test had succeeded;
\* no run, logout included, takes db_connected back; so a logout run
\* leaves the session where login_form is shown and can be submitted.
C30_ConnectedStep ==
    \A s \in Clients :
        /\ session[s].authenticated => session[s].db_connected
        /\ session'[s].authenticated => session'[s].db_connected
        /\ (~session[s].authenticated /\ session'[s].authenticated) =>
            session[s].db_connected
        /\ session[s].db_connected => session'[s].db_connected
        /\ (lastOp'.op = "logout" /\ lastOp'.sess = s) =>
            /\ ~session'[s].authenticated
            /\ session'[s].db_connected
        /\ (~session[s].authenticated /\ session[s].db_connected) => ENABLED Login(s)

\* C30: authenticated implies db_connected, and db_connected, once set,
\* stays set
C30_Connected == [][C30_ConnectedStep]_vars

\* a user other than the seeded administrator has logged out: the session
\* is not authenticated and still connected
C30_Witness ==
    /\ lastOp.op = "logout"
    /\ lastOp.uid = 2
    /\ ~session[lastOp.sess].authenticated
    /\ session[lastOp.sess].db_connected

===========================================================================
